---- MODULE Spec2Model ----
(***************************************************************************)
(* Model of the Memory Subsystem of SIA: class MemoryModule of             *)
(* src/memory_module.py, on the FAISS backend (config.VECTOR_DB =          *)
(* "faiss").  One MemoryModule instance at a time works on one storage     *)
(* path; construct models the start of a new process on that path.         *)
(*                                                                         *)
(* Numbers.  Embedding vectors are points of the integer plane; squared    *)
(* Euclidean distances are integers.  A retrieval score s of the code is   *)
(* held as 100 * s, so the lexical score overlap + 0.01 is                 *)
(* 100 * overlap + 1.  A prune threshold t is held as 2 * t.               *)
(***************************************************************************)
EXTENDS Integers, Sequences, FiniteSets, TLC

VARIABLES
    inst,       \* "live": a constructed MemoryModule (faiss) exists; "none": no instance;
                \* "storing": a thread of the live instance is inside store_memory
    memories,   \* self.memories: the Memory Store, a sequence of records
    index,      \* self.index: the vectors of the faiss.IndexFlatL2, in id order
    file,       \* the file at self.storage_path
    ret         \* the last call: its name, arguments and outcome

vars == <<inst, memories, index, file, ret>>

(***************************************************************************)
(* Bounds of the model.                                                    *)
(***************************************************************************)
MaxMem == 2         \* records the Memory Store may hold
MaxVec == 2         \* vectors the index may hold

(***************************************************************************)
(* Inputs.                                                                 *)
(***************************************************************************)
\* A text is the sequence of its whitespace-separated tokens.
TextAB == <<"a", "b">>
TextBA == <<"B", "a">>
TextC  == <<"c">>
Texts == {TextAB, TextBA, TextC}
\* A text _embed cannot hash (a list passed for the text): hash() raises TypeError.
Unhashable == <<"[unhashable]">>
Types == {"semantic", "episodic"}
NoType == "None"                    \* memory_type=None: no type filter
\* The (text, meta, memory_type) arguments store_memory and inject_memory are called
\* with.  meta is None or a mapping with an integer key, {1: "v"}.
Inputs ==
    { [text |-> TextAB, meta |-> "None", type |-> "semantic"],
      [text |-> TextBA, meta |-> "None", type |-> "episodic"],
      [text |-> TextC, meta |-> "None", type |-> "semantic"],
      [text |-> TextC, meta |-> "IntKey", type |-> "episodic"] }
Queries == {TextAB, TextC}          \* the texts retrieve_memory is queried with
TopKs == {1, 5}                     \* 5 is retrieve_memory's default top_k
\* relevance_threshold, doubled: -0.5 (the default) and 1.0 (the tests' value)
Thresholds == {-1, 2}

Min(a, b) == IF a < b THEN a ELSE b
Max(a, b) == IF a > b THEN a ELSE b

(***************************************************************************)
(* _embed: a vector drawn from a generator seeded with hash(text): equal   *)
(* texts get equal vectors and different texts different ones.  (The hash  *)
(* of a string changes from process to process, and no vector outlives its *)
(* process: the index is in memory only and is never rebuilt.)             *)
(***************************************************************************)
Point(n) == IF n = 0 THEN <<0, 0>> ELSE IF n = 1 THEN <<1, 0>> ELSE <<0, 2>>
TextNo(t) == IF t = TextAB THEN 0 ELSE IF t = TextBA THEN 1 ELSE 2
embed(text) == Point(TextNo(text))
embed_raises(text) == text = Unhashable

\* Squared Euclidean distance, the metric of IndexFlatL2.
Dist2(u, v) == (u[1] - v[1]) * (u[1] - v[1]) + (u[2] - v[2]) * (u[2] - v[2])

\* The distance IndexFlatL2.search reports, with label -1, for each of the k
\* requested neighbours the index has no vector for (the largest float32).
FltMax == 1000000

(***************************************************************************)
(* Records and their JSON form.                                            *)
(***************************************************************************)
\* meta or {}
meta_or_empty(meta) == IF meta = "None" THEN "Empty" ELSE meta
mem_record(text, meta, memory_type) ==
    [text |-> text, type |-> memory_type, meta |-> meta_or_empty(meta)]

\* json.dumps writes every key of a mapping as a string: {1: "v"} becomes {"1": "v"}.
json_meta(meta) == IF meta = "IntKey" THEN "StrKey" ELSE meta
\* The document json.dumps({"memories": self.memories}) writes, as json.loads reads it.
json_dumps(mem) ==
    [i \in 1 .. Len(mem) |->
        [text |-> mem[i].text, type |-> mem[i].type, meta |-> json_meta(mem[i].meta)]]
json_loads(plaintext) == plaintext

\* Fernet under the one configured key: a token decrypts to its plaintext; bytes
\* that are no token of the key raise InvalidToken.
fernet_encrypt(plaintext) == [valid |-> TRUE, data |-> plaintext]
\* Bytes that are no token of the key: a file cut short (the empty file included),
\* overwritten, or written under another key.
NoToken == [valid |-> FALSE, data |-> <<>>]
NoFile == [exists |-> FALSE, bytes |-> [valid |-> FALSE, data |-> <<>>]]

\* MemoryModule has no method _audit_log: every self._audit_log(...) call raises
\* AttributeError.
audit_log_raises == TRUE

\* The write left out: the file stays as it was
file_after_save_skipped(mem, disk_ok) == file

(***************************************************************************)
(* save_to_disk.  The write of lines 305-312 replaces the file when no     *)
(* step of it fails (disk_ok).  Then line 314 calls _audit_log; when it    *)
(* raises, the handler of line 315 runs and calls _audit_log again at line *)
(* 317, outside any try: the exception leaves save_to_disk.  When a write  *)
(* step fails, the handler runs at once, with the same result.             *)
(***************************************************************************)
file_after_save(mem, disk_ok) ==
    IF disk_ok THEN [exists |-> TRUE, bytes |-> fernet_encrypt(json_dumps(mem))]
    ELSE file
save_to_disk_raises == audit_log_raises

\* The loaded records added to the store instead of replacing it
memories_after_load_extending(mem) ==
    IF ~file.exists THEN mem
    ELSE IF file.bytes.valid THEN mem \o json_loads(file.bytes.data)
    ELSE <<>>

(***************************************************************************)
(* load_from_disk: the Memory Store it leaves, and whether it raises.  It  *)
(* calls _audit_log (lines 335, 339) whenever the file exists; the handler *)
(* of line 340 then calls it again at line 342.                            *)
(***************************************************************************)
memories_after_load(mem) ==
    IF ~file.exists THEN mem
    ELSE IF file.bytes.valid THEN json_loads(file.bytes.data)
    ELSE <<>>
load_from_disk_raises == file.exists /\ audit_log_raises

(***************************************************************************)
(* faiss.IndexFlatL2.search, given the distance of every vector of the     *)
(* index to the query: the k nearest in ascending distance (equal          *)
(* distances by ascending id), as <<label, distance>> with 0-based labels, *)
(* filled up to k with <<-1, FltMax>> when the index holds fewer than k.   *)
(***************************************************************************)
faiss_rank(dists, i) ==
    Cardinality({j \in 1 .. Len(dists) :
        dists[j] < dists[i] \/ (dists[j] = dists[i] /\ j < i)})
faiss_search(dists, k) ==
    [r \in 1 .. k |->
        IF r <= Len(dists)
        THEN LET i == CHOOSE i \in 1 .. Len(dists) : faiss_rank(dists, i) = r - 1
             IN  [label |-> i - 1, dist |-> dists[i]]
        ELSE [label |-> -1, dist |-> FltMax]]

(***************************************************************************)
(* retrieve_memory.                                                        *)
(***************************************************************************)
\* set(text.lower().split())
lower(token) == IF token = "B" THEN "b" ELSE token
words(text) == {lower(text[i]) : i \in 1 .. Len(text)}

type_matches(m, memory_type) == memory_type = NoType \/ m.type = memory_type

\* The 1-based positions of the records the type filter keeps, in store order
\* (lines 154-157; idx_map of line 160 maps j - 1 to filtered(..)[j] - 1).
filtered(mem, memory_type) ==
    SelectSeq([i \in 1 .. Len(mem) |-> i], LAMBDA i : type_matches(mem[i], memory_type))

\* idx_map dropped: the label of the searched index taken for a store position
idx_map_get_identity(flt, label) == label

\* idx_map.get(idx, idx), 0-based
idx_map_get(flt, label) ==
    IF 0 <= label /\ label < Len(flt) THEN flt[label + 1] - 1 ELSE label

\* The vectors searched: a temporary index over the re-embedded filtered records
\* when the filter dropped a record (lines 168-174), else self.index (line 176).
searched_vectors(mem, idx, flt) ==
    IF Len(flt) # Len(mem)
    THEN [j \in 1 .. Len(flt) |-> embed(mem[flt[j]].text)]
    ELSE idx

vector_hits(mem, idx, query, top_k, flt) ==
    LET vecs == searched_vectors(mem, idx, flt)
    IN  faiss_search([i \in 1 .. Len(vecs) |-> Dist2(vecs[i], embed(query))],
                     Min(top_k, Len(flt)))

\* self.memories[orig_idx] of line 179 raises IndexError past the end of the list;
\* a negative orig_idx counts from the end.
list_index_raises(mem, orig_idx) == orig_idx >= Len(mem) \/ orig_idx < -Len(mem)
list_at(mem, orig_idx) == IF orig_idx < 0 THEN mem[Len(mem) + orig_idx + 1] ELSE mem[orig_idx + 1]

scored(m, score) == [text |-> m.text, type |-> m.type, meta |-> m.meta, score |-> score]

\* lines 177-181: one result per hit, score = -dist
vector_results(mem, flt, hits) ==
    [r \in 1 .. Len(hits) |->
        scored(list_at(mem, idx_map_get(flt, hits[r].label)), -100 * hits[r].dist)]

overlap(query, text) == Cardinality(words(query) \cap words(text))

\* The score counted from zero and the + 0.01 left out: one shared word scores 0
keyword_scores_from_zero(mem, query, flt) ==
    LET hit == SelectSeq(flt, LAMBDA i : overlap(query, mem[i].text) > 0)
    IN  [j \in 1 .. Len(hit) |->
            scored(mem[hit[j]], 100 * (overlap(query, mem[hit[j]].text) - 1))]

\* lines 199-210: the filtered records sharing a word with the query, in store order
keyword_scores(mem, query, flt) ==
    LET hit == SelectSeq(flt, LAMBDA i : overlap(query, mem[i].text) > 0)
    IN  [j \in 1 .. Len(hit) |->
            scored(mem[hit[j]], 100 * overlap(query, mem[hit[j]].text) + 1)]

Front(s) == SubSeq(s, 1, Len(s) - 1)
Last(s) == s[Len(s)]
has_text(d, text) == \E i \in 1 .. Len(d) : d[i].text = text

\* line 212: {r["text"]: r for r in results}, as the sequence of its values in
\* insertion order: a key keeps its first place and takes its last value.
RECURSIVE dict_by_text(_)
dict_by_text(results) ==
    IF results = <<>> THEN <<>>
    ELSE LET d == dict_by_text(Front(results))
             r == Last(results)
         IN  IF has_text(d, r.text)
             THEN [i \in 1 .. Len(d) |-> IF d[i].text = r.text THEN r ELSE d[i]]
             ELSE Append(d, r)

\* lines 213-217
RECURSIVE merge_keywords(_, _)
merge_keywords(d, ks) ==
    IF ks = <<>> THEN d
    ELSE LET k == Head(ks)
         IN  merge_keywords(
                 IF has_text(d, k.text)
                 THEN [i \in 1 .. Len(d) |->
                          IF d[i].text = k.text
                          THEN [d[i] EXCEPT !.score = Max(d[i].score, k.score)]
                          ELSE d[i]]
                 ELSE Append(d, k),
                 Tail(ks))

\* line 219: sorted(..., key=score, reverse=True), a stable sort
RECURSIVE sorted_desc(_)
sorted_desc(s) ==
    IF s = <<>> THEN <<>>
    ELSE LET t == sorted_desc(Front(s))
             x == Last(s)
             n == Cardinality({i \in 1 .. Len(t) : t[i].score >= x.score})
         IN  SubSeq(t, 1, n) \o <<x>> \o SubSeq(t, n + 1, Len(t))

first_n(s, n) == SubSeq(s, 1, Min(n, Len(s)))

retrieve_result(mem, idx, query, top_k, memory_type, hybrid) ==
    IF Len(mem) = 0 THEN <<>>
    ELSE LET flt == filtered(mem, memory_type)
             hits == vector_hits(mem, idx, query, top_k, flt)
         IN  IF flt = <<>> THEN <<>>
             ELSE IF \E r \in 1 .. Len(hits) :
                         list_index_raises(mem, idx_map_get(flt, hits[r].label))
             THEN <<>>      \* the handler of line 224
             ELSE LET results == vector_results(mem, flt, hits)
                  IN  IF hybrid
                      THEN first_n(sorted_desc(merge_keywords(
                               dict_by_text(results), keyword_scores(mem, query, flt))),
                               top_k)
                      ELSE first_n(results, top_k)

(***************************************************************************)
(* prune_memories.                                                         *)
(***************************************************************************)
RECURSIVE coord_sum(_, _, _)
coord_sum(idx, positions, c) ==
    IF positions = <<>> THEN 0
    ELSE idx[Head(positions)][c] + coord_sum(idx, Tail(positions), c)

\* index.reconstruct_n(0, len(self.memories)) raises when the index holds fewer
\* vectors than the store has records (line 251).
reconstruct_raises(mem, idx) == Len(idx) < Len(mem)

\* n * n times the squared distance of vector v to the centroid of the vectors at
\* `positions` (n of them): the centroid is their sum divided by n (line 252).
centroid_dist(idx, positions, v) ==
    LET n == Len(positions)
        a == n * v[1] - coord_sum(idx, positions, 1)
        b == n * v[2] - coord_sum(idx, positions, 2)
    IN  a * a + b * b

\* D[0] of line 253: the distances of the len(self.memories) vectors nearest to the
\* centroid, ascending.
centroid_search(mem, idx, positions) ==
    faiss_search([j \in 1 .. Len(idx) |-> centroid_dist(idx, positions, idx[j])], Len(mem))

\* -dist < relevance_threshold, with the distance times n * n and the threshold doubled
below_threshold(dist_nn, n, threshold2) == -2 * dist_nn < threshold2 * n * n

\* The type test of line 254 dropped: every position below the threshold
to_prune_any_type(mem, idx, threshold2, memory_type) ==
    LET positions == filtered(mem, memory_type)
        D == centroid_search(mem, idx, positions)
    IN  {i \in 0 .. Len(mem) - 1 :
            below_threshold(D[i + 1].dist, Len(positions), threshold2)}

\* to_prune of line 254, 0-based: i runs over enumerate(D[0])
to_prune(mem, idx, threshold2, memory_type) ==
    LET positions == filtered(mem, memory_type)
        D == centroid_search(mem, idx, positions)
    IN  {i \in 0 .. Len(mem) - 1 :
            /\ below_threshold(D[i + 1].dist, Len(positions), threshold2)
            /\ type_matches(mem[i + 1], memory_type)}

\* The early returns of lines 241-249 dropped
prune_returns_early_never(mem, memory_type) == FALSE

\* lines 241-249: return 0 on an empty store or when no record passes the filter
\* (the faiss index object is truthy)
prune_returns_early(mem, memory_type) ==
    Len(mem) = 0 \/ filtered(mem, memory_type) = <<>>

\* lines 255-258: s without its 0-based positions in `gone`
without(s, gone) == SelectSeq([i \in 1 .. Len(s) |-> <<i, s[i]>>], LAMBDA p : (p[1] - 1) \notin gone)
values(ps) == [i \in 1 .. Len(ps) |-> ps[i][2]]

\* The configuration config.py hands to __init__: SIA_ENCRYPTION_KEY ("None": not
\* set; "bad": no Fernet key), VECTOR_DB lower-cased, whether `import faiss`
\* succeeded, and pinecone ("missing": not installed; "fails": its calls raise).
Keys == {"None", "key", "bad"}
VectorDBs == {"faiss", "pinecone", "chroma"}
PineconeStates == {"missing", "fails", "ok"}
Configs ==
    [key : Keys, vector_db : VectorDBs, faiss : BOOLEAN, pinecone : PineconeStates]
\* The configuration of every instance the operations below act on.
DefaultConfig == [key |-> "key", vector_db |-> "faiss", faiss |-> TRUE, pinecone |-> "missing"]

\* What ret holds before any call.  wrote: the call replaced the file; raised: an
\* exception left the call; audited: the call wrote an entry to the audit trail;
\* pending: the record a store_memory call in progress has built and not yet appended.
NoCall ==
    [op |-> "init", text |-> <<>>, mtype |-> NoType, meta |-> "None", top_k |-> 0,
     hybrid |-> FALSE, idx |-> 0, thr |-> 0, wrote |-> FALSE, raised |-> FALSE, val |-> 0,
     out |-> <<>>, audited |-> FALSE, cfg |-> DefaultConfig, pending |-> <<>>]

TypeOK ==
    /\ inst \in {"live", "none", "pinecone", "noindex", "storing"}
    /\ Len(memories) <= MaxMem
    /\ Len(index) <= MaxVec

Init ==
    /\ inst = "live"
    /\ memories = <<>>
    /\ index = <<>>
    /\ file = NoFile
    /\ ret = NoCall

(***************************************************************************)
(* __init__ in a new process.  The store and the index start empty and     *)
(* load_from_disk runs (line 86); an exception it raises leaves the        *)
(* constructor, and no instance exists.                                    *)
(***************************************************************************)
construct ==
    /\ index' = <<>>
    /\ IF load_from_disk_raises
       THEN /\ inst' = "none"
            /\ memories' = <<>>
       ELSE /\ inst' = "live"
            /\ memories' = memories_after_load(<<>>)
    /\ ret' = [NoCall EXCEPT !.op = "construct", !.raised = load_from_disk_raises,
                   !.audited = file.exists /\ ~audit_log_raises]
    /\ UNCHANGED file

(***************************************************************************)
(* store_memory.  Everything runs inside one try whose handler returns -1: *)
(* _embed, index.add, the append, save_to_disk.                            *)
(***************************************************************************)
store_memory(text, meta, memory_type, disk_ok) ==
    /\ inst = "live"
    /\ Len(memories) < MaxMem
    /\ Len(index) < MaxVec
    /\ IF embed_raises(text)
       THEN /\ UNCHANGED <<memories, index, file>>
            /\ ret' = [NoCall EXCEPT !.op = "store_memory", !.text = text,
                           !.mtype = memory_type, !.meta = meta, !.val = -1]
       ELSE /\ index' = Append(index, embed(text))
            /\ memories' = Append(memories, mem_record(text, meta, memory_type))
            /\ file' = file_after_save(memories', disk_ok)
            /\ ret' = [NoCall EXCEPT !.op = "store_memory", !.text = text,
                           !.mtype = memory_type, !.meta = meta, !.wrote = disk_ok,
                           !.audited = ~audit_log_raises,
                           !.val = IF save_to_disk_raises THEN -1
                                   ELSE Len(memories') - 1]
    /\ UNCHANGED inst

\* The record assigned as the whole store instead of appended
inject_memory_overwriting(text, meta, memory_type, disk_ok) ==
    /\ inst = "live"
    /\ Len(memories) < MaxMem
    /\ memories' = <<mem_record(text, meta, memory_type)>>
    /\ file' = file_after_save(memories', disk_ok)
    /\ ret' = [NoCall EXCEPT !.op = "inject_memory", !.text = text,
                   !.mtype = memory_type, !.meta = meta, !.wrote = disk_ok,
                   !.raised = save_to_disk_raises, !.audited = ~audit_log_raises]
    /\ UNCHANGED <<inst, index>>

(***************************************************************************)
(* inject_memory: no try; an exception of save_to_disk leaves the call.    *)
(***************************************************************************)
inject_memory(text, meta, memory_type, disk_ok) ==
    /\ inst = "live"
    /\ Len(memories) < MaxMem
    /\ memories' = Append(memories, mem_record(text, meta, memory_type))
    /\ file' = file_after_save(memories', disk_ok)
    /\ ret' = [NoCall EXCEPT !.op = "inject_memory", !.text = text,
                   !.mtype = memory_type, !.meta = meta, !.wrote = disk_ok,
                   !.raised = save_to_disk_raises, !.audited = ~audit_log_raises,
                   !.val = IF save_to_disk_raises THEN 0 ELSE Len(memories') - 1]
    /\ UNCHANGED <<inst, index>>

\* get_memory: the record at idx, or None (here <<>>).
get_memory_result(mem, idx) ==
    IF 0 <= idx /\ idx < Len(mem) THEN <<mem[idx + 1]>> ELSE <<>>

get_memory(idx) ==
    /\ inst = "live"
    /\ ret' = [NoCall EXCEPT !.op = "get_memory", !.idx = idx,
                   !.out = get_memory_result(memories, idx)]
    /\ UNCHANGED <<inst, memories, index, file>>

save_to_disk(disk_ok) ==
    /\ inst = "live"
    /\ file' = file_after_save(memories, disk_ok)
    /\ ret' = [NoCall EXCEPT !.op = "save_to_disk", !.wrote = disk_ok,
                   !.raised = save_to_disk_raises, !.audited = ~audit_log_raises]
    /\ UNCHANGED <<inst, memories, index>>

\* The index rebuilt from the loaded records
load_from_disk_rebuilding ==
    /\ inst = "live"
    /\ memories' = memories_after_load(memories)
    /\ index' = [p \in 1 .. Len(memories') |-> embed(memories'[p].text)]
    /\ ret' = [NoCall EXCEPT !.op = "load_from_disk", !.raised = load_from_disk_raises,
                   !.audited = file.exists /\ ~audit_log_raises]
    /\ UNCHANGED <<inst, file>>

load_from_disk ==
    /\ inst = "live"
    /\ memories' = memories_after_load(memories)
    /\ ret' = [NoCall EXCEPT !.op = "load_from_disk", !.raised = load_from_disk_raises,
                   !.audited = file.exists /\ ~audit_log_raises]
    /\ UNCHANGED <<inst, index, file>>

retrieve_memory(query, top_k, memory_type, hybrid) ==
    /\ inst = "live"
    /\ ret' = [NoCall EXCEPT !.op = "retrieve_memory", !.text = query, !.top_k = top_k,
                   !.mtype = memory_type, !.hybrid = hybrid,
                   !.out = retrieve_result(memories, index, query, top_k, memory_type,
                                           hybrid)]
    /\ UNCHANGED <<inst, memories, index, file>>

(***************************************************************************)
(* prune_memories: no try.  It returns 0 at lines 241-249 without saving;  *)
(* reconstruct_n may raise before anything changed; otherwise it deletes   *)
(* and calls save_to_disk, whose exception leaves the call.                *)
(***************************************************************************)
prune_memories(relevance_threshold, memory_type, disk_ok) ==
    /\ inst = "live"
    /\ IF prune_returns_early(memories, memory_type)
       THEN /\ UNCHANGED <<memories, index, file>>
            /\ ret' = [NoCall EXCEPT !.op = "prune_memories", !.mtype = memory_type,
                           !.thr = relevance_threshold]
       ELSE IF reconstruct_raises(memories, index)
       THEN /\ UNCHANGED <<memories, index, file>>
            /\ ret' = [NoCall EXCEPT !.op = "prune_memories", !.mtype = memory_type,
                           !.thr = relevance_threshold, !.raised = TRUE]
       ELSE LET gone == to_prune(memories, index, relevance_threshold, memory_type)
            IN  /\ memories' = values(without(memories, gone))
                /\ index' = values(without(index, gone))
                /\ file' = file_after_save(memories', disk_ok)
                /\ ret' = [NoCall EXCEPT !.op = "prune_memories", !.mtype = memory_type,
                               !.thr = relevance_threshold, !.wrote = disk_ok,
                               !.raised = save_to_disk_raises,
                               !.audited = ~audit_log_raises,
                               !.val = IF save_to_disk_raises THEN 0
                                       ELSE Cardinality(gone)]
    /\ UNCHANGED inst

(***************************************************************************)
(* backup_memories: shutil.copy2 of the file to a new timestamped path,    *)
(* which fails when the file is missing or the copy fails (copy_ok).       *)
(* Line 354 or line 359 then calls _audit_log, the latter outside any try. *)
(* The copy is a new file that no operation reads: ret.wrote records that  *)
(* it was made, ret.val = 1 that the path was returned.                    *)
(***************************************************************************)
backup_memories(copy_ok) ==
    /\ inst = "live"
    /\ ret' = [NoCall EXCEPT !.op = "backup_memories", !.wrote = file.exists /\ copy_ok,
                   !.raised = audit_log_raises, !.audited = ~audit_log_raises,
                   !.val = IF file.exists /\ copy_ok /\ ~audit_log_raises THEN 1 ELSE 0]
    /\ UNCHANGED <<inst, memories, index, file>>

(***************************************************************************)
(* The process stops inside save_to_disk, between open(path, "wb") of line *)
(* 311, which cuts the file to length 0, and the end of f.write of line    *)
(* 312: the file at the storage path is left empty or cut short.  The      *)
(* store and the index go with the process.                                *)
(***************************************************************************)
save_to_disk_stops ==
    /\ inst = "live"
    /\ inst' = "none"
    /\ memories' = <<>>
    /\ index' = <<>>
    /\ file' = [exists |-> TRUE, bytes |-> NoToken]
    /\ ret' = [NoCall EXCEPT !.op = "save_to_disk_stops"]

(***************************************************************************)
(* The process stops inside store_memory after index.add (line 119) and    *)
(* the append (line 128), before save_to_disk (line 129) opens the file.   *)
(***************************************************************************)
store_memory_stops(text, meta, memory_type) ==
    /\ inst = "live"
    /\ ~embed_raises(text)
    /\ inst' = "none"
    /\ memories' = <<>>
    /\ index' = <<>>
    /\ ret' = [NoCall EXCEPT !.op = "store_memory_stops", !.text = text,
                   !.mtype = memory_type, !.meta = meta]
    /\ UNCHANGED file

(***************************************************************************)
(* The bytes of the file are replaced from outside the program (or the     *)
(* configured key is changed): fernet.decrypt of line 331 will raise       *)
(* InvalidToken.                                                           *)
(***************************************************************************)
file_corrupted ==
    /\ inst = "live"
    /\ file.exists
    /\ file.bytes.valid
    /\ file' = [exists |-> TRUE, bytes |-> NoToken]
    /\ ret' = [NoCall EXCEPT !.op = "file_corrupted"]
    /\ UNCHANGED <<inst, memories, index>>

(***************************************************************************)
(* __init__ under a configuration (lines 49-86).                           *)
(***************************************************************************)
\* The raises of lines 57, 62, 69, 81 and 84.
init_raises(cfg) ==
    \/ cfg.key = "None"
    \/ cfg.key = "bad"
    \/ cfg.vector_db = "faiss" /\ ~cfg.faiss
    \/ cfg.vector_db = "pinecone" /\ cfg.pinecone # "ok"

\* What the constructed instance holds: self.index ("live"), self.pinecone_index
\* ("pinecone"), or neither ("noindex": no branch of lines 64-84 is taken).
instance_kind(cfg) ==
    IF cfg.vector_db = "faiss" THEN "live"
    ELSE IF cfg.vector_db = "pinecone" THEN "pinecone"
    ELSE "noindex"

construct_with(cfg) ==
    LET raised == init_raises(cfg) \/ load_from_disk_raises
    IN  /\ index' = <<>>
        /\ inst' = IF raised THEN "none" ELSE instance_kind(cfg)
        /\ memories' = IF raised THEN <<>> ELSE memories_after_load(<<>>)
        /\ ret' = [NoCall EXCEPT !.op = "__init__", !.cfg = cfg, !.raised = raised,
                       !.audited = ~init_raises(cfg) /\ file.exists /\ ~audit_log_raises]
        /\ UNCHANGED file

(***************************************************************************)
(* store_memory as the steps other threads can run between.  The class     *)
(* holds no lock and no operation takes one: a thread calling              *)
(* retrieve_memory or get_memory may run after index.add (line 119) and    *)
(* before the append (line 128) of a store_memory in another thread.       *)
(***************************************************************************)
\* lines 117-126: _embed, index.add, the record built
store_memory_adds(text, meta, memory_type) ==
    /\ inst = "live"
    /\ Len(memories) < MaxMem
    /\ Len(index) < MaxVec
    /\ ~embed_raises(text)
    /\ inst' = "storing"
    /\ index' = Append(index, embed(text))
    /\ ret' = [NoCall EXCEPT !.op = "store_memory_adds",
                   !.pending = <<mem_record(text, meta, memory_type)>>]
    /\ UNCHANGED <<memories, file>>

\* lines 128-134: the append, save_to_disk, the return
store_memory_appends(disk_ok) ==
    /\ inst = "storing"
    /\ inst' = "live"
    /\ memories' = Append(memories, ret.pending[1])
    /\ file' = file_after_save(memories', disk_ok)
    /\ ret' = [NoCall EXCEPT !.op = "store_memory", !.text = ret.pending[1].text,
                   !.mtype = ret.pending[1].type, !.wrote = disk_ok,
                   !.audited = ~audit_log_raises,
                   !.val = IF save_to_disk_raises THEN -1 ELSE Len(memories') - 1]
    /\ UNCHANGED index

\* retrieve_memory in another thread, between the two steps
retrieve_memory_meanwhile(query, top_k, memory_type, hybrid) ==
    /\ inst = "storing"
    /\ ret' = [NoCall EXCEPT !.op = "retrieve_memory", !.text = query, !.top_k = top_k,
                   !.mtype = memory_type, !.hybrid = hybrid, !.pending = ret.pending,
                   !.out = retrieve_result(memories, index, query, top_k, memory_type,
                                           hybrid)]
    /\ UNCHANGED <<inst, memories, index, file>>

\* get_memory in another thread, between the two steps
get_memory_meanwhile(idx) ==
    /\ inst = "storing"
    /\ ret' = [NoCall EXCEPT !.op = "get_memory", !.idx = idx, !.pending = ret.pending,
                   !.out = get_memory_result(memories, idx)]
    /\ UNCHANGED <<inst, memories, index, file>>

Next ==
    \/ construct
    \/ \E query \in Queries, top_k \in TopKs, memory_type \in Types \cup {NoType},
          hybrid \in BOOLEAN : retrieve_memory(query, top_k, memory_type, hybrid)
    \/ \E relevance_threshold \in Thresholds, memory_type \in Types \cup {NoType},
          disk_ok \in BOOLEAN : prune_memories(relevance_threshold, memory_type, disk_ok)
    \/ \E a \in Inputs, disk_ok \in BOOLEAN :
          store_memory(a.text, a.meta, a.type, disk_ok)
    \/ \E disk_ok \in BOOLEAN : store_memory(Unhashable, "None", "semantic", disk_ok)
    \/ \E a \in Inputs, disk_ok \in BOOLEAN :
          inject_memory(a.text, a.meta, a.type, disk_ok)
    \/ \E idx \in -1 .. MaxMem : get_memory(idx)
    \/ \E disk_ok \in BOOLEAN : save_to_disk(disk_ok)
    \/ load_from_disk
    \/ \E copy_ok \in BOOLEAN : backup_memories(copy_ok)
    \/ save_to_disk_stops
    \/ \E a \in Inputs : store_memory_stops(a.text, a.meta, a.type)
    \/ file_corrupted

(***************************************************************************)
(* The steps of each operation, over all its arguments.                    *)
(***************************************************************************)
StoreStep ==
    \E a \in Inputs, disk_ok \in BOOLEAN : store_memory(a.text, a.meta, a.type, disk_ok)

\* The index holds one vector per record, each the embedding of its record's text.
Aligned(mem, idx) ==
    /\ Len(idx) = Len(mem)
    /\ \A p \in 1 .. Len(mem) : idx[p] = embed(mem[p].text)

(***************************************************************************)
(* C1.  Round trip: after store_memory / inject_memory calls and a         *)
(* save_to_disk that wrote the file, a fresh MemoryModule constructed on   *)
(* the same path exists and holds the original's records, in order.        *)
(***************************************************************************)
C1_RoundTrip ==
    [][(ret.op = "save_to_disk" /\ ret.wrote /\ Len(memories) > 0 /\ construct)
        => (inst' = "live" /\ memories' = memories)]_vars

(***************************************************************************)
(* C2.  After every completed operation the Memory Store has as many       *)
(* records as the Vector Index has vectors.                                *)
(***************************************************************************)
C2_StoreAndIndexSameSize == inst = "live" => Len(memories) = Len(index)

(***************************************************************************)
(* C3.  At every position the store and the index both have, the vector is *)
(* the embedding of the text of the record at that position.               *)
(***************************************************************************)
C3_VectorOfRecordAtSamePosition ==
    inst = "live" =>
        \A p \in 1 .. Min(Len(memories), Len(index)) : index[p] = embed(memories[p].text)

(***************************************************************************)
(* C4.  A store_memory that returns -1 appended nothing: the store and the *)
(* index are as before the call.                                           *)
(***************************************************************************)
C4_FailedStoreAppendsNothing ==
    [][(\/ StoreStep
        \/ \E disk_ok \in BOOLEAN : store_memory(Unhashable, "None", "semantic", disk_ok))
        /\ ret'.val = -1
        => (memories' = memories /\ index' = index)]_vars

(***************************************************************************)
(* C5.  A store_memory whose embedding and index add succeed, and every    *)
(* inject_memory, returns the position of the record it created: the size  *)
(* of the store before the call, where get_memory then finds the record    *)
(* with the given text, type and meta.                                     *)
(***************************************************************************)
C5_ReturnsPositionOfNewRecord ==
    [][\A a \in Inputs, disk_ok \in BOOLEAN :
          (\/ store_memory(a.text, a.meta, a.type, disk_ok)
           \/ inject_memory(a.text, a.meta, a.type, disk_ok))
          => /\ ~ret'.raised
             /\ ret'.val = Len(memories)
             /\ get_memory_result(memories', ret'.val)
                    = <<mem_record(a.text, a.meta, a.type)>>]_vars

(***************************************************************************)
(* C6.  Type filter isolation: every record retrieve_memory returns under  *)
(* a type filter T has type T.                                             *)
(***************************************************************************)
C6_TypeFilterIsolation ==
    (ret.op = "retrieve_memory" /\ ret.mtype # NoType)
        => \A j \in 1 .. Len(ret.out) : ret.out[j].type = ret.mtype

\* A filtered retrieval returned a record while the store held one of another type.
C6_Witness ==
    /\ ret.op = "retrieve_memory"
    /\ ret.mtype = "episodic"
    /\ ret.out # <<>>
    /\ \E p \in 1 .. Len(memories) : memories[p].type = "semantic"

(***************************************************************************)
(* C7.  The vector stage returns no record that has no vector: with        *)
(* hybrid=False, retrieve_memory returns nothing when the index is empty,  *)
(* and only records whose text has a vector in the index.                  *)
(***************************************************************************)
C7_VectorStageSkipsRecordsWithoutVector ==
    (ret.op = "retrieve_memory" /\ ~ret.hybrid)
        => /\ Len(index) = 0 => ret.out = <<>>
           /\ \A j \in 1 .. Len(ret.out) :
                  \E p \in 1 .. Len(index) : index[p] = embed(ret.out[j].text)

(***************************************************************************)
(* C8.  Hybrid union: with hybrid=True, when at most top_k distinct texts  *)
(* of the filtered records share a word with the query, the result holds   *)
(* the text of every such record.                                          *)
(***************************************************************************)
LexicalMatches(mem, query, memory_type) ==
    {p \in 1 .. Len(mem) :
        type_matches(mem[p], memory_type) /\ overlap(query, mem[p].text) > 0}

C8_HybridUnion ==
    (ret.op = "retrieve_memory" /\ ret.hybrid)
        => LET match == LexicalMatches(memories, ret.text, ret.mtype)
           IN  Cardinality({memories[p].text : p \in match}) <= ret.top_k
                   => \A p \in match :
                          \E j \in 1 .. Len(ret.out) : ret.out[j].text = memories[p].text

(***************************************************************************)
(* C9.  After store_memory(T), retrieve_memory(T) with the default top_k   *)
(* and hybrid returns the record with text T first, with a score at least  *)
(* that of every returned record with another text.                        *)
(***************************************************************************)
C9_ExactMatchFirst ==
    [][\A T \in Queries :
          (/\ ret.op = "store_memory"
           /\ ret.text = T
           /\ retrieve_memory(T, 5, NoType, TRUE))
          => /\ ret'.out # <<>>
             /\ ret'.out[1].text = T
             /\ \A j \in 1 .. Len(ret'.out) :
                    ret'.out[j].text # T => ret'.out[1].score >= ret'.out[j].score]_vars

(***************************************************************************)
(* C10.  prune_memories removes the record at position p iff that          *)
(* record's own centroid-similarity (minus the squared distance of the     *)
(* vector at p to the centroid of the filtered records' vectors) is below  *)
(* the threshold and the record passes the type filter.  Stated where the  *)
(* index holds exactly the embeddings of the records.                      *)
(***************************************************************************)
OwnBelowThreshold(mem, idx, threshold2, memory_type) ==
    LET positions == filtered(mem, memory_type)
    IN  {i \in 0 .. Len(mem) - 1 :
            /\ below_threshold(centroid_dist(idx, positions, idx[i + 1]),
                               Len(positions), threshold2)
            /\ type_matches(mem[i + 1], memory_type)}

C10_PrunesByOwnSimilarity ==
    [][\A t \in Thresholds, T \in Types \cup {NoType}, disk_ok \in BOOLEAN :
          (/\ Aligned(memories, index)
           /\ filtered(memories, T) # <<>>
           /\ prune_memories(t, T, disk_ok))
          => memories' = values(without(memories, OwnBelowThreshold(memories, index, t, T)))]_vars

(***************************************************************************)
(* C11.  Pruning monotonicity: after prune_memories(threshold, T) the      *)
(* store is no larger than before, and no surviving record of type T (any  *)
(* survivor without a filter) has a centroid-similarity below the          *)
(* threshold, the centroid taken over the vectors of the surviving records *)
(* of that type.  Stated where the index holds exactly the embeddings of   *)
(* the records.                                                            *)
(***************************************************************************)
C11_PruneMonotone ==
    [][\A t \in Thresholds, T \in Types \cup {NoType}, disk_ok \in BOOLEAN :
          (Aligned(memories, index) /\ prune_memories(t, T, disk_ok))
          => /\ Len(memories') <= Len(memories)
             /\ OwnBelowThreshold(memories', index', t, T) = {}]_vars

(***************************************************************************)
(* C12.  prune_memories with a threshold above every similarity score      *)
(* (1.0) and type filter T, called when a record of type T exists (any     *)
(* record without a filter), removes every such record and returns a count *)
(* of at least 1.                                                          *)
(***************************************************************************)
C12_PruneAboveEveryScore ==
    [][\A T \in Types \cup {NoType}, disk_ok \in BOOLEAN :
          (filtered(memories, T) # <<>> /\ prune_memories(2, T, disk_ok))
          => /\ filtered(memories', T) = <<>>
             /\ ~ret'.raised
             /\ ret'.val >= 1]_vars

(***************************************************************************)
(* C13.  prune_memories with a type filter T leaves the records of every   *)
(* other type as they were: the same records in the same relative order,   *)
(* for any threshold.                                                      *)
(***************************************************************************)
OtherTypes(mem, T) == SelectSeq(mem, LAMBDA m : m.type # T)

C13_PruneKeepsOtherTypes ==
    [][(ret'.op = "prune_memories" /\ ret'.mtype # NoType)
        => OtherTypes(memories', ret'.mtype) = OtherTypes(memories, ret'.mtype)]_vars

\* A prune of the episodic records that reached its save (so it removed every
\* episodic record, the threshold being 1.0) left records of another type behind.
C13_Witness ==
    /\ ret.op = "prune_memories"
    /\ ret.mtype = "episodic"
    /\ ret.thr = 2
    /\ ret.wrote
    /\ memories # <<>>

(***************************************************************************)
(* C14.  prune_memories on an empty store, or with a type filter no record *)
(* matches, returns 0 and changes neither the store, the index nor the     *)
(* file.                                                                   *)
(***************************************************************************)
NoRecordOfType(mem, T) == \A p \in 1 .. Len(mem) : ~type_matches(mem[p], T)

C14_EmptyPruneIsNoOp ==
    [][(ret'.op = "prune_memories" /\ NoRecordOfType(memories, ret'.mtype))
        => /\ ret'.val = 0
           /\ ~ret'.raised
           /\ UNCHANGED <<memories, index, file>>]_vars

\* A prune under a filter no record matched returned 0 on a store that holds
\* records, with the file in place.
C14_Witness ==
    /\ ret.op = "prune_memories"
    /\ ret.mtype = "episodic"
    /\ ~ret.raised
    /\ ret.val = 0
    /\ memories # <<>>
    /\ file.exists

(***************************************************************************)
(* C15.  Decrypt-failure fallback: when the file exists and cannot be      *)
(* decrypted, load_from_disk (called directly or by the constructor)       *)
(* returns without raising, leaves the store empty and writes an entry to  *)
(* the audit trail; the constructor yields an instance.                    *)
(***************************************************************************)
C15_DecryptFailureFallback ==
    (ret.op \in {"load_from_disk", "construct"} /\ file.exists /\ ~file.bytes.valid)
        => /\ ~ret.raised
           /\ inst = "live"
           /\ memories = <<>>
           /\ ret.audited

(***************************************************************************)
(* C16.  Construction fails (no instance) whenever no encryption key is    *)
(* configured, or the configured vector-index backend is unsupported or    *)
(* unavailable; no instance exists that has neither a local nor a remote   *)
(* index.                                                                  *)
(***************************************************************************)
BackendUnsupported(cfg) == cfg.vector_db \notin {"faiss", "pinecone"}
BackendUnavailable(cfg) ==
    \/ cfg.vector_db = "faiss" /\ ~cfg.faiss
    \/ cfg.vector_db = "pinecone" /\ cfg.pinecone # "ok"

C16_ConstructionFails ==
    /\ (ret.op = "__init__"
            /\ (ret.cfg.key = "None" \/ BackendUnsupported(ret.cfg)
                    \/ BackendUnavailable(ret.cfg)))
        => (ret.raised /\ inst = "none")
    /\ inst # "noindex"

(***************************************************************************)
(* C17.  save_to_disk, load_from_disk and backup_memories never let an     *)
(* exception reach the caller; backup_memories returns the backup path     *)
(* exactly when the copy was made.                                         *)
(***************************************************************************)
C17_PersistenceNeverRaises ==
    /\ ret.op \in {"save_to_disk", "load_from_disk", "backup_memories"} => ~ret.raised
    /\ ret.op = "backup_memories" => (ret.val = 1 <=> ret.wrote)

(***************************************************************************)
(* C18.  When the encryption or the write of the file fails during         *)
(* store_memory, store_memory returns -1, the cause is recorded in the     *)
(* audit trail, and the instance stays usable.                             *)
(***************************************************************************)
C18_FailedWriteReported ==
    (ret.op = "store_memory" /\ ret.text # Unhashable /\ ~ret.wrote)
        => /\ ret.val = -1
           /\ ret.audited
           /\ inst = "live"

(***************************************************************************)
(* C19.  save_to_disk replaces the file atomically: when the process stops *)
(* in the middle of a save, the file is the complete previous ciphertext   *)
(* or the complete new one.                                                *)
(***************************************************************************)
C19_AtomicSave ==
    [][save_to_disk_stops
        => (file' = file \/ file' = file_after_save(memories, TRUE))]_vars

(***************************************************************************)
(* C20.  When the process stops in store_memory after the index and the    *)
(* store were updated and before the file is written, the restart          *)
(* (construction, with its load_from_disk) yields an instance whose store  *)
(* is the record list last persisted and whose index holds exactly one     *)
(* vector per loaded record, the embedding of its text.                    *)
(***************************************************************************)
C20_RestartAfterStop ==
    [][(ret.op = "store_memory_stops" /\ file.exists /\ file.bytes.valid /\ construct)
        => /\ inst' = "live"
           /\ memories' = json_loads(file.bytes.data)
           /\ Aligned(memories', index')]_vars

(***************************************************************************)
(* C21.  A retrieve_memory or get_memory that runs while a store_memory is *)
(* in progress observes the store and the index both as before the         *)
(* store_memory or both as after it: its result is the one it would give   *)
(* before the call or the one it would give after it.                      *)
(***************************************************************************)
C21_ReadersSeeBeforeOrAfter ==
    [][inst = "storing" =>
        LET after == Append(memories, ret.pending[1])
        IN  /\ ret'.op = "retrieve_memory" =>
                   \/ ret'.out = retrieve_result(memories, Front(index), ret'.text,
                                     ret'.top_k, ret'.mtype, ret'.hybrid)
                   \/ ret'.out = retrieve_result(after, index, ret'.text,
                                     ret'.top_k, ret'.mtype, ret'.hybrid)
            /\ ret'.op = "get_memory" =>
                   \/ ret'.out = get_memory_result(memories, ret'.idx)
                   \/ ret'.out = get_memory_result(after, ret'.idx)]_vars

(***************************************************************************)
(* C22.  save_to_disk and load_from_disk are idempotent: a save_to_disk    *)
(* right after one that wrote the file leaves the store and the file as    *)
(* they are, a load_from_disk right after another leaves the store as it   *)
(* is; construction with no file at the path yields an instance with an    *)
(* empty store.                                                            *)
(***************************************************************************)
C22_SaveAndLoadIdempotent ==
    [][/\ (ret.op = "save_to_disk" /\ ret.wrote /\ ret'.op = "save_to_disk")
            => (memories' = memories /\ file' = file)
       /\ (ret.op = "load_from_disk" /\ ret'.op = "load_from_disk")
            => memories' = memories
       /\ (ret'.op = "construct" /\ ~file.exists)
            => (inst' = "live" /\ memories' = <<>>)]_vars

\* A load_from_disk has replaced the store by the records of the file; the index
\* shows that the store held other records before.
C22_Witness ==
    /\ ret.op = "load_from_disk"
    /\ file.exists
    /\ file.bytes.valid
    /\ memories # <<>>
    /\ memories = json_loads(file.bytes.data)
    /\ ~Aligned(memories, index)

(***************************************************************************)
(* C30.  load_from_disk leaves the index and the file as they are: the     *)
(* index after a load holds exactly the vectors it held before, and a      *)
(* newly constructed instance holds none.                                  *)
(***************************************************************************)
C30_LoadLeavesIndexAndFile ==
    [][/\ ret'.op = "load_from_disk" => (index' = index /\ file' = file)
       /\ ret'.op = "construct" => (index' = <<>> /\ file' = file)]_vars

\* A load_from_disk has replaced the store by the file's records and the index
\* still holds the vectors of the records stored before.
C30_Witness ==
    /\ ret.op = "load_from_disk"
    /\ file.exists
    /\ file.bytes.valid
    /\ memories = json_loads(file.bytes.data)
    /\ index # <<>>
    /\ \E p \in 1 .. Len(index) :
           \A q \in 1 .. Len(memories) : index[p] # embed(memories[q].text)

(***************************************************************************)
(* C23.  Every save_to_disk (also the one store_memory, inject_memory and  *)
(* prune_memories run), every load_from_disk that finds a file and every   *)
(* backup_memories writes an entry to the audit trail.                     *)
(***************************************************************************)
C23_EveryPersistenceCallAudited ==
    (\/ ret.op \in {"save_to_disk", "inject_memory", "backup_memories"}
     \/ ret.op = "store_memory" /\ ret.text # Unhashable
     \/ ret.op = "prune_memories" /\ ret.wrote
     \/ ret.op = "load_from_disk" /\ file.exists)
        => ret.audited

(***************************************************************************)
(* C27.  A prune_memories that gets to schedule positions removes exactly  *)
(* the records at the scheduled positions, from the store and from the     *)
(* index, the survivors keeping their order, and returns the number by     *)
(* which the store shrank.                                                 *)
(***************************************************************************)
C27_PruneRemovesScheduledAndCounts ==
    [][(/\ ret'.op = "prune_memories"
        /\ filtered(memories, ret'.mtype) # <<>>
        /\ Len(index) >= Len(memories))
        => LET gone == to_prune(memories, index, ret'.thr, ret'.mtype)
           IN  /\ memories' = values(without(memories, gone))
               /\ index' = values(without(index, gone))
               /\ ~ret'.raised
               /\ ret'.val = Len(memories) - Len(memories')]_vars

(***************************************************************************)
(* C28.  prune_memories returns a count and never raises, also where some  *)
(* records have no vector in the index (after inject_memory, or after a    *)
(* load_from_disk); the instance stays usable.                             *)
(***************************************************************************)
C28_PruneNeverRaises ==
    (ret.op = "prune_memories" /\ Len(index) < Len(memories))
        => (~ret.raised /\ inst = "live")

(***************************************************************************)
(* C24.  Records are destroyed only by pruning or by a load whose          *)
(* decryption failed: in an instance, the store loses a record or a record *)
(* of it changes only in a prune_memories call or in a load_from_disk of a *)
(* file that does not decrypt; store_memory and inject_memory only append, *)
(* and retrieve_memory, get_memory, save_to_disk and backup_memories leave *)
(* the store as it is.                                                     *)
(***************************************************************************)
IsPrefix(s, t) == Len(s) <= Len(t) /\ SubSeq(t, 1, Len(s)) = s
SameInstance == inst = "live" /\ inst' = "live" /\ ret'.op # "construct"

C24_DestroyedOnlyByPruneOrFailedDecrypt ==
    [][SameInstance =>
        /\ ~IsPrefix(memories, memories')
             => \/ ret'.op = "prune_memories"
                \/ ret'.op = "load_from_disk" /\ file.exists /\ ~file.bytes.valid
        /\ ret'.op \in {"store_memory", "inject_memory"}
             => (IsPrefix(memories, memories') /\ Len(memories') <= Len(memories) + 1)
        /\ ret'.op \in {"retrieve_memory", "get_memory", "save_to_disk", "backup_memories"}
             => memories' = memories]_vars

(***************************************************************************)
(* C24, amended.  The same, with every load_from_disk that finds a file    *)
(* in the place of the load whose decryption failed: a load replaces the   *)
(* store by the records of the file.                                       *)
(***************************************************************************)
C24_DestroyedOnlyByPruneOrLoad ==
    [][SameInstance =>
        /\ ~IsPrefix(memories, memories')
             => \/ ret'.op = "prune_memories"
                \/ ret'.op = "load_from_disk" /\ file.exists
        /\ ret'.op \in {"store_memory", "inject_memory"}
             => (IsPrefix(memories, memories') /\ Len(memories') <= Len(memories) + 1)
        /\ ret'.op \in {"retrieve_memory", "get_memory", "save_to_disk", "backup_memories"}
             => memories' = memories]_vars

\* A load_from_disk of a file that decrypts left fewer records than the index has
\* vectors: the store held more records before the load.
C24_Witness ==
    /\ ret.op = "load_from_disk"
    /\ file.exists
    /\ file.bytes.valid
    /\ Len(memories) < Len(index)

VectorScore(text, query) == -100 * Dist2(embed(text), embed(query))
LexicalScore(text, query) == 100 * overlap(query, text) + 1
OfType(mem, T) == {p \in 1 .. Len(mem) : type_matches(mem[p], T)}

\* The texts of the k nearest records of type T, k the smaller of top_k and their number.
VectorStage(mem, query, top_k, T) ==
    LET F == OfType(mem, T)
        k == Min(top_k, Cardinality(F))
        nearer(p) == {q \in F : VectorScore(mem[q].text, query)
                                    > VectorScore(mem[p].text, query)}
    IN  {mem[p].text : p \in {p \in F : Cardinality(nearer(p)) < k}}

LexicalStage(mem, query, T) == {mem[p].text : p \in LexicalMatches(mem, query, T)}

UnionScore(text, query, V) ==
    IF overlap(query, text) = 0 THEN VectorScore(text, query)
    ELSE IF text \in V THEN Max(VectorScore(text, query), LexicalScore(text, query))
    ELSE LexicalScore(text, query)

C26_HybridResult ==
    ret.op = "retrieve_memory" =>
        LET out == ret.out
            V == VectorStage(memories, ret.text, ret.top_k, ret.mtype)
            U == V \cup LexicalStage(memories, ret.text, ret.mtype)
        IN  /\ memories = <<>> => out = <<>>
            /\ Len(out) <= ret.top_k
            /\ ret.hybrid =>
                  /\ Len(out) = Min(ret.top_k, Cardinality(U))
                  /\ \A j \in 1 .. Len(out) :
                         /\ out[j].text \in U
                         /\ out[j].score = UnionScore(out[j].text, ret.text, V)
                  /\ \A i, j \in 1 .. Len(out) :
                         i < j => (out[i].text # out[j].text /\ out[i].score >= out[j].score)
                  /\ \A t \in U : \A j \in 1 .. Len(out) :
                         (\A i \in 1 .. Len(out) : out[i].text # t)
                             => out[j].score >= UnionScore(t, ret.text, V)
            /\ ~ret.hybrid =>
                  /\ Len(out) = Min(ret.top_k, Cardinality(OfType(memories, ret.mtype)))
                  /\ \A j \in 1 .. Len(out) :
                         /\ out[j].text \in V
                         /\ out[j].score = VectorScore(out[j].text, ret.text)
                  /\ \A t \in V : \E j \in 1 .. Len(out) : out[j].text = t

Spec == Init /\ [][Next]_vars

(***************************************************************************)
(* retrieve_memory as a function of the store and the index.  It reads     *)
(* self.memories and self.index and changes neither, so its claims are     *)
(* checked from every store and every index within the bounds.  The        *)
(* program reaches each such pair: save_to_disk on the empty store,        *)
(* store_memory of the index's texts with the file write failing,          *)
(* load_from_disk (which empties the store and keeps the index), then      *)
(* inject_memory of the store's records (with save_to_disk and             *)
(* load_from_disk for a record in its JSON form).                          *)
(***************************************************************************)
BoundedSeq(S, n) == UNION {[1 .. k -> S] : k \in 0 .. n}
Records ==
    {mem_record(a.text, a.meta, a.type) : a \in Inputs}
        \cup {json_dumps(<<mem_record(a.text, a.meta, a.type)>>)[1] : a \in Inputs}
Vectors == {embed(t) : t \in Texts}

InitRetrieve ==
    /\ inst = "live"
    /\ memories \in BoundedSeq(Records, MaxMem)
    /\ index \in BoundedSeq(Vectors, MaxVec)
    /\ file = NoFile
    /\ ret = NoCall

NextRetrieve ==
    \E query \in Queries, top_k \in TopKs, memory_type \in Types \cup {NoType},
       hybrid \in BOOLEAN : retrieve_memory(query, top_k, memory_type, hybrid)

SpecRetrieve == InitRetrieve /\ [][NextRetrieve]_vars

(***************************************************************************)
(* prune_memories from every store and every index within the bounds       *)
(* (reached as described above).                                           *)
(***************************************************************************)
NextPrune ==
    \E relevance_threshold \in Thresholds, memory_type \in Types \cup {NoType},
       disk_ok \in BOOLEAN : prune_memories(relevance_threshold, memory_type, disk_ok)

SpecPrune == InitRetrieve /\ [][NextPrune]_vars

(***************************************************************************)
(* prune_memories after up to MaxPrune store_memory calls on a new         *)
(* instance: the index holds the embedding of every record.                *)
(***************************************************************************)
MaxPrune == 3

InitPruneAligned ==
    /\ inst = "live"
    /\ memories \in BoundedSeq({mem_record(a.text, a.meta, a.type) : a \in Inputs}, MaxPrune)
    /\ index = [p \in 1 .. Len(memories) |-> embed(memories[p].text)]
    /\ file = NoFile
    /\ ret = NoCall

SpecPruneAligned == InitPruneAligned /\ [][NextPrune]_vars

(***************************************************************************)
(* __init__ under every configuration, on every file an earlier process    *)
(* may have left at the storage path: none, one save_to_disk wrote, or one *)
(* that is no token of the key.                                            *)
(***************************************************************************)
ConstructFiles ==
    {NoFile, [exists |-> TRUE, bytes |-> NoToken]}
        \cup {[exists |-> TRUE, bytes |-> fernet_encrypt(json_dumps(m))] :
                 m \in BoundedSeq(Records, 1)}

InitConstruct ==
    /\ inst = "none"
    /\ memories = <<>>
    /\ index = <<>>
    /\ file \in ConstructFiles
    /\ ret = NoCall

NextConstruct == \E cfg \in Configs : construct_with(cfg)

SpecConstruct == InitConstruct /\ [][NextConstruct]_vars

(***************************************************************************)
(* store_memory calls of one thread, with the reads of other threads       *)
(* between their steps.                                                    *)
(***************************************************************************)
NextConcurrent ==
    \/ \E a \in Inputs : store_memory_adds(a.text, a.meta, a.type)
    \/ \E disk_ok \in BOOLEAN : store_memory_appends(disk_ok)
    \/ \E query \in Queries, top_k \in TopKs, memory_type \in Types \cup {NoType},
          hybrid \in BOOLEAN : retrieve_memory_meanwhile(query, top_k, memory_type, hybrid)
    \/ \E idx \in -1 .. MaxMem : get_memory_meanwhile(idx)

SpecConcurrent == Init /\ [][NextConcurrent]_vars

(***************************************************************************)
(* save_to_disk, load_from_disk and __init__ on an instance that stored    *)
(* up to MaxMem records, with any file at the storage path an earlier      *)
(* process may have left: none, one save_to_disk wrote, or one that is no  *)
(* token of the key.                                                       *)
(***************************************************************************)
PersistFiles ==
    {NoFile, [exists |-> TRUE, bytes |-> NoToken]}
        \cup {[exists |-> TRUE, bytes |-> fernet_encrypt(json_dumps(m))] :
                 m \in BoundedSeq({mem_record(a.text, a.meta, a.type) : a \in Inputs}, MaxMem)}

InitPersist ==
    /\ inst = "live"
    /\ memories \in BoundedSeq({mem_record(a.text, a.meta, a.type) : a \in Inputs}, MaxMem)
    /\ index = [p \in 1 .. Len(memories) |-> embed(memories[p].text)]
    /\ file \in PersistFiles
    /\ ret = NoCall

NextPersist ==
    \/ \E disk_ok \in BOOLEAN : save_to_disk(disk_ok)
    \/ load_from_disk
    \/ construct

SpecPersist == InitPersist /\ [][NextPersist]_vars

(***************************************************************************)
(* The operations that change the store and write the file, on a new       *)
(* instance with no file at the storage path.                              *)
(***************************************************************************)
NextMutate ==
    \/ \E a \in Inputs, disk_ok \in BOOLEAN :
          store_memory(a.text, a.meta, a.type, disk_ok)
    \/ \E a \in Inputs, disk_ok \in BOOLEAN :
          inject_memory(a.text, a.meta, a.type, disk_ok)
    \/ \E relevance_threshold \in Thresholds, memory_type \in Types \cup {NoType},
          disk_ok \in BOOLEAN : prune_memories(relevance_threshold, memory_type, disk_ok)

SpecMutate == Init /\ [][NextMutate]_vars

====
